---- MODULE Spec2Model ----
(***************************************************************************)
(* A model of qualtrics_tagger.QualtricsTagger (src/qualtrics_tagger/      *)
(* __init__.py): the embedded-data codec (image_path_to_ed and             *)
(* ed_to_image_path), the export poller (_generate_report,                 *)
(* _get_export_progress, _get_export_result, download_results,             *)
(* get_responses) and the survey builder (create, _process_image).         *)
(*                                                                         *)
(* A Python str is a sequence of one-character strings.  The remote        *)
(* service, the file system and the interpreter's library calls are the    *)
(* environment: their answers are drawn with \E from small sets.           *)
(***************************************************************************)
EXTENDS Integers, Sequences, FiniteSets, TLC

VARIABLES
    \* ---- codec ----
    sep,        \* os.path.sep of the platform
    path,       \* the argument of image_path_to_ed
    ed,         \* the argument of ed_to_image_path
    decoded,    \* what ed_to_image_path returned
    cpc,        \* position of the codec caller
    \* ---- export poller ----
    pc,         \* position inside download_results / get_responses
    entry,      \* the public method that was called
    hist,       \* outcomes of the calls of _get_export_progress, in order
    waits,      \* for each time.sleep(1.5), the number of polls made before it
    req,        \* url of each requests.get issued by the download step
    served,     \* the body the server serves for the download request
    httpcode,   \* status code of the download response
    stream,     \* state of the response stream r.raw
    out_file,   \* content of the destination file object
    err,        \* the exception that left the method
    responses,  \* return value of get_responses
    \* ---- survey builder ----
    kpc,        \* position inside create
    files,      \* files under images_dir
    srcver,     \* content version of each source file
    max_image_width, \* the argument of create
    misc,       \* whether scipy.misc could be imported
    towalk,     \* files os.walk has not yielded yet
    images,     \* the list create builds
    idx,        \* index of the current loop of create
    work,       \* output artifacts in work_dir
    workdirs,   \* directories that exist in work_dir
    start,      \* work, workdirs and survey when the current run began
    prev,       \* how the previous run of create ended
    image_ids,  \* ids returned by _upload_image
    survey,     \* content of work_dir/survey.txt
    netcalls,   \* HTTP requests issued by the current run of create
    transforms, \* link, copy and resize operations of the current run
    run,        \* number of the current run of create
    kerr        \* the exception that left create

codecVars  == <<sep, path, ed, decoded, cpc>>
exportVars == <<pc, entry, hist, waits, req, served, httpcode, stream,
                out_file, err, responses>>
createVars == <<kpc, files, srcver, max_image_width, misc, towalk, images, idx,
                work, workdirs, start, prev, image_ids, survey, netcalls, transforms, run, kerr>>
vars == <<codecVars, exportVars, createVars>>

(***************************************************************************)
(* Bounds of the model.                                                    *)
(***************************************************************************)
MaxPathLen == 3
MaxInProgress == 2
MaxMembers == 2
MaxRuns == 2

\* ---------------------------------------------------------------- strings
SeqsUpTo(S, n) == UNION {[1..k -> S] : k \in 0..n}

RECURSIVE Replace(_, _, _)
\* str.replace(old, new) for one-character old and new
Replace(s, old, new) ==
    IF s = <<>> THEN <<>>
    ELSE <<IF Head(s) = old THEN new ELSE Head(s)>> \o Replace(Tail(s), old, new)

\* str.startswith(prefix)
StartsWith(s, prefix) ==
    /\ Len(s) >= Len(prefix)
    /\ SubSeq(s, 1, Len(prefix)) = prefix

\* s[n:]
DropFirst(s, n) == IF Len(s) <= n THEN <<>> ELSE SubSeq(s, n + 1, Len(s))

\* c in s
Contains(s, c) == \E i \in 1..Len(s) : s[i] = c

Pipe == "|"
AnnoPrefix == <<"a", "n", "n", "o", "_">>
PrefixLen == 5

\* ------------------------------------------------------------------ codec
\* image_path_to_ed: "anno_" + path.replace(os.path.sep, '|')
image_path_to_ed(p, s) == AnnoPrefix \o Replace(p, s, Pipe)

\* an assertion that leaves the underscore out
EdAccepted_short(e) == StartsWith(e, <<"a", "n", "n", "o">>)

\* the assertion of ed_to_image_path
EdAccepted(e) == StartsWith(e, AnnoPrefix)

\* a decoder that knows one separator only
ed_to_image_path_posix(e, s) == Replace(DropFirst(e, PrefixLen), Pipe, "/")

\* ed_to_image_path past its assertion: ed[5:].replace('|', os.path.sep)
ed_to_image_path(e, s) == Replace(DropFirst(e, PrefixLen), Pipe, s)

Seps == {"/", "\\"}
PathChars == {"a", "/", "\\", "|"}
Paths == SeqsUpTo(PathChars, MaxPathLen)
ValidPaths == {p \in Paths : ~Contains(p, Pipe)}
\* heads of the tokens handed to ed_to_image_path by a caller
Heads == {AnnoPrefix, <<"a", "n", "n", "o">>, <<"a", "n", "n", "o", "|">>,
          <<"x", "a", "n", "n", "o", "_">>, <<>>}
Tokens == {h \o t : h \in Heads, t \in Paths}
NoValue == <<"<none>">>

CodecIdle ==
    /\ sep = "/" /\ path = NoValue /\ ed = NoValue /\ decoded = NoValue
    /\ cpc = "idle"

CodecInit ==
    /\ sep \in Seps
    /\ path = NoValue /\ ed = NoValue /\ decoded = NoValue
    /\ cpc = "start"

\* a caller encodes a relative path
Encode ==
    /\ cpc = "start"
    /\ \E p \in Paths :
        /\ path' = p
        /\ ed' = image_path_to_ed(p, sep)
    /\ cpc' = "encoded"
    /\ UNCHANGED <<sep, decoded>>

\* a caller hands a token of its own to ed_to_image_path
Supply ==
    /\ cpc = "start"
    /\ \E t \in Tokens : ed' = t
    /\ cpc' = "supplied"
    /\ UNCHANGED <<sep, path, decoded>>

\* a caller decodes the token it holds
Decode ==
    /\ cpc \in {"encoded", "supplied"}
    /\ IF EdAccepted(ed)
       THEN /\ decoded' = ed_to_image_path(ed, sep)
            /\ cpc' = "decoded"
       ELSE /\ decoded' = decoded
            /\ cpc' = "AssertionError"
    /\ UNCHANGED <<sep, path, ed>>

\* ---------------------------------------------------------- export poller
Urls == {"u1", "u2"}
Reasons == {"quota exceeded", "internal error"}
Percents == {10, 55}
\* the "responses" lists a member of the archive may hold
ResponseLists == {<<>>, <<"A">>, <<"C">>, <<"A", "B">>, <<"B", "A">>}
Names == {"a.json", "b.json"}

NoErr == [type |-> "none", reason |-> ""]
Raised(t, r) == [type |-> t, reason |-> r]

\* what one call of _get_export_progress meets: the request raises, the reply
\* is an error reply of the API (its JSON body has "meta" and no "result"),
\* or the reply carries the "result" of one of the three status shapes
NoResult == [status |-> "", percentComplete |-> 0, file |-> "", reason |-> ""]
PollOutcomes ==
    {[kind |-> "exception", result |-> NoResult],
     [kind |-> "http_error", result |-> NoResult]}
    \cup {[kind |-> "result",
           result |-> [NoResult EXCEPT !.status = "in progress", !.percentComplete = n]]
          : n \in Percents}
    \cup {[kind |-> "result",
           result |-> [NoResult EXCEPT !.status = "complete", !.file = u]] : u \in Urls}
    \cup {[kind |-> "result",
           result |-> [NoResult EXCEPT !.status = "failed", !.reason = x]] : x \in Reasons}

IsInProgress(o) == o.kind = "result" /\ o.result.status = "in progress"
IsComplete(o) == o.kind = "result" /\ o.result.status = "complete"
IsFailed(o) == o.kind = "result" /\ ~IsInProgress(o) /\ ~IsComplete(o)

\* the job stays in progress for at most MaxInProgress polls
Answers(h) ==
    {o \in PollOutcomes : IsInProgress(o) => Len(h) < MaxInProgress}

\* bytes: a sequence of chunks.  A ZIP archive is its members in listing
\* order followed by its directory; an error reply's body is text.
Chunk(k, n, r) == [kind |-> k, name |-> n, responses |-> r]
Members == {Chunk("member", n, r) : n \in Names, r \in ResponseLists}
Eocd == Chunk("eocd", "", <<>>)
Archives == {a \o <<Eocd>> : a \in SeqsUpTo(Members, MaxMembers)}
ErrorBody == <<Chunk("text", "", <<>>)>>
\* an HTTP status code of the 4xx and 5xx classes
IsErrorStatus(code) == code >= 400
\* what the server may serve for the download request
Replies ==
    {[code |-> 200, body |-> a] : a \in Archives}
    \cup {[code |-> 404, body |-> ErrorBody]}

\* r.json()['result'] of _generate_report and _get_export_progress
JsonResult(o) ==
    CASE o.kind = "exception"  -> Raised("ConnectionError", "")
      [] o.kind = "http_error" -> Raised("KeyError", "result")
      [] OTHER                 -> NoErr

\* a loop that goes round on everything but "complete"
StillWaiting_retry(r) == r.status # "complete"

\* line 308
StillWaiting(r) == r.status = "in progress"
\* line 312
ReadyToDownload(r) == r.status = "complete"
\* line 318
ExportFailure(r) == Raised("RuntimeError", r.reason)
\* line 314: the url handed to requests.get
DownloadUrl(r) == r.file

ExportIdle ==
    /\ pc = "idle" /\ entry = "" /\ hist = <<>> /\ waits = <<>>
    /\ req = <<>> /\ served = <<>> /\ httpcode = 0 /\ stream = "none"
    /\ out_file = <<>> /\ err = NoErr /\ responses = <<>>

\* download_results is handed a freshly opened file, get_responses makes a
\* fresh io.BytesIO
ExportInit ==
    /\ entry \in {"download_results", "get_responses"}
    /\ pc = "generate"
    /\ hist = <<>> /\ waits = <<>>
    /\ req = <<>> /\ served = <<>> /\ httpcode = 0 /\ stream = "none"
    /\ out_file = <<>> /\ err = NoErr /\ responses = <<>>

\* _generate_report
GenerateReport ==
    /\ pc = "generate"
    /\ \E o \in {[kind |-> "exception"], [kind |-> "http_error"], [kind |-> "result"]} :
        IF JsonResult(o) = NoErr
        THEN /\ pc' = "poll" /\ err' = err
        ELSE /\ pc' = "raised" /\ err' = JsonResult(o)
    /\ UNCHANGED <<entry, hist, waits, req, served, httpcode, stream, out_file,
                   responses>>

\* one pass of the loop of _get_export_result up to its branch:
\* _get_export_progress, then lines 308, 312 and 318
Poll ==
    /\ pc = "poll"
    /\ \E o \in Answers(hist) :
        /\ hist' = Append(hist, o)
        /\ IF JsonResult(o) # NoErr
           THEN /\ pc' = "raised" /\ err' = JsonResult(o)
           ELSE IF StillWaiting(o.result)
           THEN /\ pc' = "sleep" /\ err' = err
           ELSE IF ReadyToDownload(o.result)
           THEN /\ pc' = "download" /\ err' = err
           ELSE /\ pc' = "raised" /\ err' = ExportFailure(o.result)
    /\ UNCHANGED <<entry, waits, req, served, httpcode, stream, out_file, responses>>

\* a loop that gives up at its second wait
Sleep_timeout ==
    /\ pc = "sleep"
    /\ waits' = Append(waits, Len(hist))
    /\ IF Len(waits) >= 1
       THEN /\ pc' = "raised" /\ err' = Raised("TimeoutError", "")
       ELSE /\ pc' = "poll" /\ err' = err
    /\ UNCHANGED <<entry, hist, req, served, httpcode, stream, out_file,
                   responses>>

\* time.sleep(1.5), then the loop goes round
Sleep ==
    /\ pc = "sleep"
    /\ waits' = Append(waits, Len(hist))
    /\ pc' = "poll"
    /\ UNCHANGED <<entry, hist, req, served, httpcode, stream, out_file, err,
                   responses>>

\* line 314: requests.get(r['file'], ..., stream=True); the status code of the
\* reply is not looked at
Download ==
    /\ pc = "download"
    /\ req' = Append(req, DownloadUrl(hist[Len(hist)].result))
    /\ \E rep \in Replies \cup {[code |-> 0, body |-> <<>>]} :
        IF rep.code = 0
        THEN /\ pc' = "raised" /\ err' = Raised("ConnectionError", "")
             /\ UNCHANGED <<served, httpcode, stream>>
        ELSE /\ pc' = "copy" /\ err' = err
             /\ served' = rep.body /\ httpcode' = rep.code /\ stream' = "open"
    /\ UNCHANGED <<entry, hist, waits, out_file, responses>>

\* where _get_export_result returns to
AfterExport == IF entry = "get_responses" THEN "parse" ELSE "returned"

\* a copy that reads the stream once
CopyOneChunk ==
    /\ pc = "copy"
    /\ IF out_file = <<>> /\ served # <<>>
       THEN /\ out_file' = <<served[1]>>
            /\ UNCHANGED <<pc, stream>>
       ELSE /\ stream' = "exhausted"
            /\ pc' = AfterExport
            /\ out_file' = out_file
    /\ UNCHANGED <<entry, hist, waits, req, served, httpcode, responses, err>>

\* line 315: one pass of the loop of shutil.copyfileobj(r.raw, out_file): read
\* a chunk, stop at the end of the body, else write the chunk.  The read and
\* the write may raise.  Nothing in _get_export_result closes r: the library
\* releases the connection when the body has been read to its end and when a
\* read fails, and a failed write leaves it open.
Copy ==
    /\ pc = "copy"
    /\ \E io \in {"ok", "read raises", "write raises"} :
        IF io = "ok" \/ (io = "write raises" /\ Len(out_file) = Len(served))
        THEN IF Len(out_file) < Len(served)
             THEN /\ out_file' = Append(out_file, served[Len(out_file) + 1])
                  /\ UNCHANGED <<pc, stream, err>>
             ELSE /\ stream' = "exhausted"
                  /\ pc' = AfterExport
                  /\ UNCHANGED <<out_file, err>>
        ELSE /\ pc' = "raised" /\ err' = Raised("IOError", io)
             /\ stream' = IF io = "read raises" THEN "closed" ELSE stream
             /\ out_file' = out_file
    /\ UNCHANGED <<entry, hist, waits, req, served, httpcode, responses>>

\* zipfile.ZipFile(zipf): the bytes are an archive
IsZip(b) ==
    /\ b # <<>>
    /\ b[Len(b)] = Eocd
    /\ \A i \in 1..(Len(b) - 1) : b[i].kind = "member"

\* zip.namelist(): the member names in listing order
namelist(b) == [i \in 1..(Len(b) - 1) |-> b[i].name]

\* zip.read(filename): a member is looked up by its name, and of two members
\* of one name the directory keeps the later
ZipRead(b, filename) ==
    LET last == CHOOSE i \in 1..(Len(b) - 1) :
                    /\ b[i].name = filename
                    /\ \A j \in (i + 1)..(Len(b) - 1) : b[j].name # filename
    IN  b[last]

RECURSIVE Collect(_, _)
\* lines 346-350: responses += json.loads(zip.read(filename))['responses']
Collect(b, names) ==
    IF names = <<>> THEN <<>>
    ELSE ZipRead(b, Head(names)).responses \o Collect(b, Tail(names))

\* get_responses past download_results (lines 344-351)
Parse ==
    /\ pc = "parse"
    /\ IF IsZip(out_file)
       THEN /\ responses' = Collect(out_file, namelist(out_file))
            /\ pc' = "returned" /\ err' = err
       ELSE /\ pc' = "raised" /\ err' = Raised("BadZipFile", "")
            /\ responses' = responses
    /\ UNCHANGED <<entry, hist, waits, req, served, httpcode, stream, out_file>>

\* --------------------------------------------------------- survey builder
\* a file under images_dir: its directory below images_dir, its stem and its
\* extension; the platform's separator is "/" here
File(d, n, e) == [dir |-> d, stem |-> n, ext |-> e]
Universe ==
    {File(<<>>, <<"a">>, <<".", "p", "n", "g">>),
     File(<<"d">>, <<"b">>, <<".", "J", "P", "G">>),
     File(<<>>, <<"x", "|", "y">>, <<".", "p", "n", "g">>),
     File(<<"p", "|", "q">>, <<"c">>, <<".", "j", "p", "g">>),
     File(<<>>, <<"n", "|">>, <<".", "t", "x", "t">>)}

\* os.path.relpath(path, images_dir)
RelPath(f) == (IF f.dir = <<>> THEN <<>> ELSE f.dir \o <<"/">>) \o f.stem \o f.ext

RelPaths == {RelPath(f) : f \in Universe}
FileOf(p) == CHOOSE f \in Universe : RelPath(f) = p

LowerChar(c) ==
    CASE c = "J" -> "j" [] c = "P" -> "p" [] c = "G" -> "g" [] c = "N" -> "n"
      [] OTHER -> c
\* str.lower()
Lower(s) == [i \in 1..Len(s) |-> LowerChar(s[i])]
\* str.endswith(suffix)
EndsWith(s, suffix) ==
    /\ Len(s) >= Len(suffix)
    /\ SubSeq(s, Len(s) - Len(suffix) + 1, Len(s)) = suffix

\* _is_image
_is_image(p) ==
    \/ EndsWith(Lower(p), <<".", "p", "n", "g">>)
    \/ EndsWith(Lower(p), <<".", "j", "p", "g">>)

\* a check of the file name alone
HasPipe_filename(p) == Contains(FileOf(p).stem, Pipe)

\* line 86: '|' in relpath
HasPipe(p) == Contains(p, Pipe)

NoArtifact == [kind |-> "none", ver |-> 0]
NoSurvey == [decls |-> <<>>, questions |-> <<>>, written |-> FALSE]
\* max_image_width: 0 stands for None (both are false in line 175)
Widths == {0, 900}

\* os.path.exists(out_path): a symlink exists when its target does
Exists(w, fs, p) ==
    /\ w[p].kind # "none"
    /\ w[p].kind = "symlink" => FileOf(p) \in fs

CreateIdle ==
    /\ kpc = "idle" /\ files = {} /\ srcver = <<>>
    /\ max_image_width = 0 /\ misc = TRUE /\ towalk = {} /\ images = <<>>
    /\ idx = 1 /\ work = <<>> /\ workdirs = {}
    /\ start = <<>> /\ prev = "none" /\ image_ids = <<>> /\ survey = NoSurvey
    /\ netcalls = 0 /\ transforms = <<>> /\ run = 1 /\ kerr = NoErr

CreateInit ==
    /\ files \in SUBSET Universe
    /\ max_image_width \in Widths
    /\ misc \in BOOLEAN
    /\ srcver = [p \in RelPaths |-> 1]
    /\ kpc = "walk" /\ towalk = files /\ images = <<>> /\ idx = 1
    /\ work = [p \in RelPaths |-> NoArtifact] /\ workdirs = {}
    /\ start = <<work, workdirs, NoSurvey>> /\ prev = "none"
    /\ image_ids = <<>> /\ survey = NoSurvey
    /\ netcalls = 0 /\ transforms = <<>> /\ run = 1 /\ kerr = NoErr

\* lines 81-88: os.walk yields one more file, those of images_dir itself
\* before those of its subdirectories, in the order the file system lists them
Walk ==
    /\ kpc = "walk" /\ towalk # {}
    /\ \E f \in towalk :
        /\ f.dir # <<>> => \A g \in towalk : g.dir # <<>>
        /\ towalk' = towalk \ {f}
        /\ IF _is_image(RelPath(f))
           THEN IF HasPipe(RelPath(f))
                THEN /\ kpc' = "raised"
                     /\ kerr' = Raised("RuntimeError", RelPath(f))
                     /\ images' = images
                ELSE /\ images' = Append(images, RelPath(f))
                     /\ UNCHANGED <<kpc, kerr>>
           ELSE UNCHANGED <<kpc, kerr, images>>
    /\ UNCHANGED <<files, srcver, max_image_width, misc, idx, work, workdirs,
                   start, prev, image_ids, survey, netcalls, transforms, run>>

\* line 89: the walk is over
WalkDone ==
    /\ kpc = "walk" /\ towalk = {}
    /\ kpc' = "preprocess" /\ idx' = 1
    /\ UNCHANGED <<files, srcver, max_image_width, misc, towalk, images, work,
                   workdirs, start, prev, image_ids, survey, netcalls,
                   transforms, run, kerr>>

\* what _process_image meets in the file system and the image library
Faults == {"none", "symlink fails", "symlink and copy fail", "image library fails"}

\* a skip that takes regular files only
AlreadyProcessed_regular(w, fs, p) == w[p].kind \in {"copy", "resized"}

\* line 172: the skip of _process_image
AlreadyProcessed(w, fs, p) == Exists(w, fs, p)

\* _process_image(in_path, out_path, max_image_width) under fault ft: the
\* operations it performs, the artifact it leaves at out_path and the
\* exception it raises
_process_image(w, fs, ver, p, width, lib, ft) ==
    IF AlreadyProcessed(w, fs, p)
    THEN [ops |-> <<>>, out |-> w[p], exc |-> NoErr]
    ELSE IF width = 0
    THEN CASE ft = "symlink fails" ->
                [ops |-> <<<<"symlink", p>>, <<"copy", p>>>>,
                 out |-> [kind |-> "copy", ver |-> ver[p]], exc |-> NoErr]
           [] ft = "symlink and copy fail" ->
                [ops |-> <<<<"symlink", p>>, <<"copy", p>>>>,
                 out |-> w[p], exc |-> Raised("IOError", p)]
           [] OTHER ->
                [ops |-> <<<<"symlink", p>>>>,
                 out |-> [kind |-> "symlink", ver |-> 0], exc |-> NoErr]
    ELSE IF ~lib
    THEN [ops |-> <<>>, out |-> w[p], exc |-> Raised("ImportError", "scipy.misc")]
    ELSE IF ft = "image library fails"
    THEN [ops |-> <<<<"resize", p>>>>, out |-> w[p], exc |-> Raised("IOError", p)]
    ELSE [ops |-> <<<<"resize", p>>>>,
          out |-> [kind |-> "resized", ver |-> ver[p]], exc |-> NoErr]

\* os.path.dirname(outpath) below work_dir
OutDir(p) == FileOf(p).dir

\* lines 92-102: one pass of the preprocessing loop
Preprocess ==
    /\ kpc = "preprocess" /\ idx <= Len(images)
    /\ \E ft \in Faults :
        LET p == images[idx]
            r == _process_image(work, files, srcver, p, max_image_width, misc, ft)
        IN  /\ workdirs' = workdirs \cup {<<>>, OutDir(p)}
            /\ work' = [work EXCEPT ![p] = r.out]
            /\ transforms' = transforms \o r.ops
            /\ IF r.exc = NoErr
               THEN /\ idx' = idx + 1 /\ UNCHANGED <<kpc, kerr>>
               ELSE /\ kpc' = "raised" /\ kerr' = r.exc /\ idx' = idx
    /\ UNCHANGED <<files, srcver, max_image_width, misc, towalk, images, start,
                   prev, image_ids, survey, netcalls, run>>

PreprocessDone ==
    /\ kpc = "preprocess" /\ idx > Len(images)
    /\ kpc' = "upload" /\ idx' = 1
    /\ UNCHANGED <<files, srcver, max_image_width, misc, towalk, images, work,
                   workdirs, start, prev, image_ids, survey, netcalls,
                   transforms, run, kerr>>

\* r.json()['result']['id'] of _upload_image and _import_survey
PostOutcomes == {"id", "exception", "http_error"}
PostError(o) ==
    CASE o = "exception"  -> Raised("ConnectionError", "")
      [] o = "http_error" -> Raised("KeyError", "result")
      [] OTHER            -> NoErr

\* lines 106-112: one pass of the upload loop, one POST by _upload_image
Upload ==
    /\ kpc = "upload" /\ idx <= Len(images)
    /\ netcalls' = netcalls + 1
    /\ \E o \in PostOutcomes :
        IF PostError(o) = NoErr
        THEN /\ image_ids' = Append(image_ids, <<"IM", idx>>)
             /\ idx' = idx + 1
             /\ UNCHANGED <<kpc, kerr>>
        ELSE /\ kpc' = "raised" /\ kerr' = PostError(o)
             /\ UNCHANGED <<image_ids, idx>>
    /\ UNCHANGED <<files, srcver, max_image_width, misc, towalk, images, work,
                   workdirs, start, prev, survey, transforms, run>>

\* lines 115-140: survey.txt is opened for writing in work_dir, which exists
\* only if a directory was made there, and is filled from the templates
WriteSurvey ==
    /\ kpc = "upload" /\ idx > Len(images)
    /\ IF <<>> \in workdirs
       THEN /\ survey' =
                [decls |-> [i \in 1..Len(images) |-> image_path_to_ed(images[i], "/")],
                 questions |-> [i \in 1..Len(images) |->
                                  <<images[i], image_ids[i],
                                    image_path_to_ed(images[i], "/")>>],
                 written |-> TRUE]
            /\ kpc' = "import" /\ kerr' = kerr
       ELSE /\ kpc' = "raised" /\ kerr' = Raised("FileNotFoundError", "survey.txt")
            /\ survey' = survey
    /\ UNCHANGED <<files, srcver, max_image_width, misc, towalk, images, idx,
                   work, workdirs, start, prev, image_ids, netcalls, transforms,
                   run>>

\* line 143: one POST by _import_survey; lines 146-163 touch nothing modelled
Import ==
    /\ kpc = "import"
    /\ netcalls' = netcalls + 1
    /\ \E o \in PostOutcomes :
        IF PostError(o) = NoErr
        THEN /\ kpc' = "returned" /\ kerr' = kerr
        ELSE /\ kpc' = "raised" /\ kerr' = PostError(o)
    /\ UNCHANGED <<files, srcver, max_image_width, misc, towalk, images, idx,
                   work, workdirs, start, prev, image_ids, survey, transforms,
                   run>>

\* between two runs a source image is replaced by another of the same name
Touch ==
    /\ kpc \in {"returned", "raised"} /\ run < MaxRuns
    /\ \E f \in files :
        /\ srcver[RelPath(f)] = 1
        /\ srcver' = [srcver EXCEPT ![RelPath(f)] = 2]
    /\ UNCHANGED <<kpc, files, max_image_width, misc, towalk, images, idx, work,
                   workdirs, start, prev, image_ids, survey, netcalls,
                   transforms, run, kerr>>

\* the phase of create a run ended in
Ended == IF kpc = "returned" THEN "returned" ELSE kerr.type

\* create is called again on the same images_dir
Rerun ==
    /\ kpc \in {"returned", "raised"} /\ run < MaxRuns
    /\ run' = run + 1
    /\ prev' = Ended
    /\ start' = <<work, workdirs, survey>>
    /\ kpc' = "walk" /\ towalk' = files /\ images' = <<>> /\ idx' = 1
    /\ image_ids' = <<>> /\ netcalls' = 0 /\ transforms' = <<>> /\ kerr' = NoErr
    /\ max_image_width' \in Widths
    /\ UNCHANGED <<files, srcver, misc, work, workdirs, survey>>

\* --------------------------------------------------------- specifications
CodecNext ==
    \/ Encode /\ UNCHANGED <<exportVars, createVars>>
    \/ Supply /\ UNCHANGED <<exportVars, createVars>>
    \/ Decode /\ UNCHANGED <<exportVars, createVars>>

ExportNext ==
    \/ GenerateReport /\ UNCHANGED <<codecVars, createVars>>
    \/ Poll /\ UNCHANGED <<codecVars, createVars>>
    \/ Sleep /\ UNCHANGED <<codecVars, createVars>>
    \/ Download /\ UNCHANGED <<codecVars, createVars>>
    \/ Copy /\ UNCHANGED <<codecVars, createVars>>
    \/ Parse /\ UNCHANGED <<codecVars, createVars>>

CreateNext ==
    \/ Walk /\ UNCHANGED <<codecVars, exportVars>>
    \/ WalkDone /\ UNCHANGED <<codecVars, exportVars>>
    \/ Preprocess /\ UNCHANGED <<codecVars, exportVars>>
    \/ PreprocessDone /\ UNCHANGED <<codecVars, exportVars>>
    \/ Upload /\ UNCHANGED <<codecVars, exportVars>>
    \/ WriteSurvey /\ UNCHANGED <<codecVars, exportVars>>
    \/ Import /\ UNCHANGED <<codecVars, exportVars>>
    \/ Touch /\ UNCHANGED <<codecVars, exportVars>>
    \/ Rerun /\ UNCHANGED <<codecVars, exportVars>>

\* callers of the codec
InitCodec == CodecInit /\ ExportIdle /\ CreateIdle
SpecCodec == InitCodec /\ [][CodecNext]_vars
\* one call of download_results or get_responses
InitExport == CodecIdle /\ ExportInit /\ CreateIdle
SpecExport == InitExport /\ [][ExportNext]_vars
\* runs of create over one images_dir
InitCreate == CodecIdle /\ ExportIdle /\ CreateInit
SpecCreate == InitCreate /\ [][CreateNext]_vars

Init == InitCodec \/ InitExport \/ InitCreate
Next == CodecNext \/ ExportNext \/ CreateNext
Spec == Init /\ [][Next]_vars

\* ----------------------------------------------------------------- claims
Last(s) == s[Len(s)]
Iota(k) == [i \in 1..k |-> i]

\* C1: a path without '|' that is encoded and then decoded comes back as it
\* was, whatever the platform's separator, and no other path without '|' has
\* the same token
C1_RoundTripInjective ==
    (path # NoValue /\ ~Contains(path, Pipe)) =>
        /\ cpc # "AssertionError"
        /\ cpc = "decoded" => decoded = path
        /\ \A q \in ValidPaths : image_path_to_ed(q, sep) = ed => q = path

C1_Witness ==
    /\ cpc = "decoded" /\ sep = "\\"
    /\ path = <<"a", "\\", "/">> /\ ed = AnnoPrefix \o <<"a", "|", "/">>
    /\ decoded = path

\* C10: a token that does not start with anno_ makes ed_to_image_path fail
\* and return nothing; a token that does start with it yields its characters
\* past the fifth, each '|' turned into the separator
C10_DecodeContract ==
    /\ cpc = "AssertionError" =>
        /\ decoded = NoValue
        /\ \E i \in 1..PrefixLen : Len(ed) < i \/ ed[i] # AnnoPrefix[i]
    /\ cpc = "decoded" =>
        /\ \A i \in 1..PrefixLen : Len(ed) >= i /\ ed[i] = AnnoPrefix[i]
        /\ Len(decoded) = Len(ed) - PrefixLen
        /\ \A i \in 1..Len(decoded) :
            decoded[i] = IF ed[i + PrefixLen] = "|" THEN sep ELSE ed[i + PrefixLen]

C10_Witness ==
    /\ cpc = "AssertionError" /\ path = NoValue
    /\ ed = <<"a", "n", "n", "o", "|", "a">> /\ decoded = NoValue

\* there was a poll, and every poll before the last returned "in progress"
InProgressUntilLast(h) ==
    /\ h # <<>>
    /\ \A i \in 1..(Len(h) - 1) : IsInProgress(h[i])

\* _get_export_result has returned to its caller
ExportReturned ==
    \/ pc \in {"parse", "returned"}
    \/ pc = "raised" /\ err.type = "BadZipFile"

\* C2: after k polls "in progress" and one "complete" with a url there is no
\* further poll, there were k waits, the i-th right after the i-th poll, one
\* download is issued, from that url, and no download is ever issued before a
\* "complete"; when the download serves its body to the end the method
\* returns with the destination holding exactly the served bytes, and it
\* raises only if the download request or the copy raised
C2_SuccessProtocol ==
    /\ req # <<>> => hist # <<>> /\ IsComplete(Last(hist))
    /\ (InProgressUntilLast(hist) /\ IsComplete(Last(hist))) =>
        /\ pc \notin {"generate", "poll", "sleep"}
        /\ waits = Iota(Len(hist) - 1)
        /\ req = IF pc = "download" THEN <<>> ELSE <<Last(hist).result.file>>
        /\ ExportReturned => out_file = served /\ stream = "exhausted"
        /\ pc = "copy" => stream = "open" /\ out_file = SubSeq(served, 1, Len(out_file))
        /\ (pc = "raised" /\ ~ExportReturned) => err.type \in {"ConnectionError", "IOError"}

C2_Witness ==
    /\ pc = "returned" /\ entry = "download_results"
    /\ Len(hist) = 3 /\ IsInProgress(hist[1]) /\ IsInProgress(hist[2])
    /\ hist[1].result.percentComplete = 10 /\ hist[2].result.percentComplete = 55
    /\ IsComplete(hist[3]) /\ hist[3].result.file = "u2"
    /\ waits = <<1, 2>> /\ req = <<"u2">>
    /\ httpcode = 200 /\ Len(served) = 3 /\ out_file = served

\* C3: after k polls "in progress" and one failed status with reason r the
\* method has raised an error carrying r, after k waits, with no download
\* requested and nothing written
C3_FailureProtocol ==
    (InProgressUntilLast(hist) /\ IsFailed(Last(hist))) =>
        /\ pc = "raised"
        /\ err.type = "RuntimeError" /\ err.reason = Last(hist).result.reason
        /\ waits = Iota(Len(hist) - 1)
        /\ req = <<>> /\ stream = "none" /\ served = <<>>
        /\ out_file = <<>>

C3_Witness ==
    /\ pc = "raised" /\ Len(hist) = 2
    /\ IsInProgress(hist[1]) /\ IsFailed(hist[2])
    /\ err = Raised("RuntimeError", "quota exceeded")
    /\ waits = <<1>> /\ req = <<>> /\ out_file = <<>>

\* C4: an HTTP call of the export path that raises or is answered with an
\* error status makes the method fail at once; an error-status reply to the
\* download never lets _get_export_result return, and its body never reaches
\* the destination
C4_ErrorsFailImmediately ==
    /\ (hist # <<>> /\ Last(hist).kind # "result") => pc = "raised"
    /\ IsErrorStatus(httpcode) =>
        /\ ~ExportReturned
        /\ \A i \in 1..Len(out_file) : out_file[i].kind # "text"

\* _get_export_result has been entered
Entered == pc # "generate" /\ ~(pc = "raised" /\ hist = <<>>)

\* C6: while every poll so far returned "in progress" the method has neither
\* returned nor raised: it is about to poll again, or asleep and then about to
\* poll again, however many polls there were; and a poll that returns anything
\* else is the last one
C6_UnboundedPolling ==
    /\ (Entered /\ \A i \in 1..Len(hist) : IsInProgress(hist[i])) =>
        /\ pc \in {"poll", "sleep"}
        /\ pc = "poll" => waits = Iota(Len(hist)) /\ ENABLED Poll
        /\ pc = "sleep" => waits = Iota(Len(hist) - 1) /\ ENABLED Sleep
    /\ \A i \in 1..Len(hist) :
        ~IsInProgress(hist[i]) => i = Len(hist) /\ pc \notin {"poll", "sleep"}

C6_Witness ==
    /\ pc = "poll" /\ Len(hist) = 2 /\ waits = <<1, 2>>
    /\ IsInProgress(hist[1]) /\ IsInProgress(hist[2])

RECURSIVE Flatten(_)
\* m1.responses ++ ... ++ mn.responses of the members of archive bytes b, in
\* listing order
Flatten(b) ==
    IF b = <<>> \/ Head(b).kind # "member" THEN <<>>
    ELSE Head(b).responses \o Flatten(Tail(b))

\* C7: get_responses returns the concatenation of the responses of every
\* member of the downloaded archive, in listing order
C7_Concatenation ==
    (entry = "get_responses" /\ pc = "returned") => responses = Flatten(out_file)

\* get_responses returns that concatenation when no two members of the
\* archive have the same name
GetResponsesDistinctNames ==
    (/\ entry = "get_responses" /\ pc = "returned"
     /\ \A i, j \in 1..(Len(out_file) - 1) :
            out_file[i].name = out_file[j].name => i = j)
        => responses = Flatten(out_file)

\* C9: once _get_export_result has returned or raised, the response stream of
\* its download is no longer open
C9_StreamReleased ==
    (ExportReturned \/ pc \in {"returned", "raised"}) => stream # "open"

\* the images under images_dir whose relative path has a '|'
PipeImages == {f \in files : _is_image(RelPath(f)) /\ Contains(RelPath(f), Pipe)}

\* C5: with an image path under images_dir that has a '|', create never gets
\* past its walk: it raises an error naming such a path, having issued no
\* HTTP request, processed no image and left work_dir as it found it
C5_PipeRejected ==
    PipeImages # {} =>
        /\ kpc \in {"walk", "raised"}
        /\ kpc = "walk" => towalk \cap PipeImages # {}
        /\ kpc = "raised" =>
            /\ kerr.type = "RuntimeError"
            /\ \E f \in PipeImages : kerr.reason = RelPath(f)
        /\ netcalls = 0 /\ transforms = <<>> /\ image_ids = <<>>
        /\ <<work, workdirs, survey>> = start

C5_Witness ==
    /\ kpc = "raised" /\ run = 1
    /\ kerr = Raised("RuntimeError", <<"p", "|", "q", "/", "c", ".", "j", "p", "g">>)
    /\ Len(images) = 2
    /\ netcalls = 0 /\ transforms = <<>> /\ workdirs = {}

\* the runs that got past the preprocessing loop
PastPreprocess == {"returned", "ConnectionError", "KeyError", "FileNotFoundError"}

\* C8: an output that exists when a run of create begins is left as it is and
\* no link, copy or resize is performed for it; a run that follows one that
\* got past preprocessing performs none at all, also when a source image was
\* replaced in between
C8_SkipIfExists ==
    /\ \A p \in RelPaths :
        Exists(start[1], files, p) =>
            /\ work[p] = start[1][p]
            /\ \A i \in 1..Len(transforms) : transforms[i][2] # p
    /\ (run > 1 /\ prev \in PastPreprocess) => transforms = <<>>

C8_Witness ==
    /\ run = 2 /\ prev = "returned" /\ kpc = "returned"
    /\ Len(images) = 2 /\ transforms = <<>>
    /\ \E p \in RelPaths :
        /\ srcver[p] = 2
        /\ work[p] = [kind |-> "resized", ver |-> 1]
====
